---- MODULE Spec2Model ----
(***************************************************************************)
(* Model of webcam_app/views.py: a process-wide camera handle, the lazy    *)
(* open / release functions, the frame generator and the five views.       *)
(*                                                                         *)
(* Requests are served by worker threads that share the module global      *)
(* `camera` without any lock.  Each step of a worker is one source line    *)
(* that reads or writes shared state (the global handle, the device, the   *)
(* session store, the disk); lines that touch only locals are folded into  *)
(* the step before them.                                                   *)
(*                                                                         *)
(* The global `camera` is None or a cv2.VideoCapture object, of which the  *)
(* model keeps what the code can observe: whether its device is open.  An  *)
(* object is closed only by camera.release() (line 29); no other line of   *)
(* the source closes one.  An object that the global no longer refers to   *)
(* cannot be reached by any line of the source: the model only counts      *)
(* those whose device is still open (`leaked`).                            *)
(***************************************************************************)
EXTENDS Naturals, Sequences, FiniteSets, TLC

\* ---------------------------------------------------------------- bounds
MaxLeaked  == 1     \* open devices the global handle has lost track of
MaxChunks  == 1     \* chunks one client consumes before it disconnects

Threads  == {1, 2}
Sessions == {"s1", "s2"}
Frames   == {"f1", "f2"}

\* the values of the global `camera`
None   == "None"
Opened == "VideoCapture:opened"
Closed == "VideoCapture:closed"

VARIABLES
    camera,     \* the module global: None or a VideoCapture object
    leaked,     \* open devices of objects `camera` no longer refers to
    session,    \* session[s]: the session's dictionary
    disk,       \* the files on disk: name -> content
    exited,     \* the atexit hook has run
    pc,         \* pc[t]: the line worker t is about to run, or "idle"
    handler,    \* handler[t]: the view worker t is serving
    sid,        \* sid[t]: the session of the request worker t is serving
    frame,      \* frame[t]: the local `frame` of capture
    chunks,     \* chunks[t]: what the generator has yielded to the client
    last,       \* the request that has just ended, with its response
    alone,      \* history: no other worker has stepped since t's request began
    stops,      \* history: stop_stream requests completed in a row
    workers,    \* the worker threads the server runs
    seen        \* history: the (session, flag, device open) triples met so far

vars == <<camera, leaked, session, disk, exited, pc, handler, sid,
          frame, chunks, last, alone, stops, workers, seen>>

shared == <<camera, leaked, session, disk, exited>>

\* ------------------------------------------------------------- responses
Redirect     == "redirect:index"
Rendered     == "render:webcam_app/index.html"
Stopped      == "200:Streaming is stopped."
Stream       == "stream:multipart/x-mixed-replace; boundary=frame"
CaptureFail  == "500:Failed to capture frame"
RuntimeError == "RuntimeError:Could not start camera."
AttributeError == "AttributeError:NoneType"

Filename == "captured_frame.jpg"

\* ----------------------------------------------------------- pure helpers
\* request.session.get(key, default)
SessionGet(s, key, default) ==
    IF key \in DOMAIN session[s] THEN session[s][key] ELSE default

\* request.session[key] = value
SessionSet(s, key, value) ==
    [session EXCEPT ![s] = (key :> value) @@ session[s]]

\* obj.isOpened()
isOpened(obj) == obj = Opened

\* camera is not None and camera.isOpened()
CameraOpen == camera # None /\ isOpened(camera)

\* the devices that are open
OpenDevices == leaked + (IF camera # None /\ isOpened(camera) THEN 1 ELSE 0)

\* the global is bound to another value: the object it referred to is lost
Rebind(new) ==
    /\ camera' = new
    /\ leaked' = IF camera # None /\ isOpened(camera) THEN leaked + 1 ELSE leaked

\* The chunks one client consumes before it disconnects: the server that
\* runs a single worker is small enough to follow a stream one chunk further.
ChunkLimit == IF Cardinality(workers) = 1 THEN MaxChunks + 1 ELSE MaxChunks

\* cv2.imencode(".jpg", frame)[1].tobytes(), and what cv2.imwrite stores
imencode(f) == <<"jpeg", f>>

\* Chunk without the line break after the JPEG bytes
Chunk_nobreak(f) == <<"--frame\r\n", "Content-Type: image/jpeg\r\n\r\n", imencode(f)>>

\* the multipart part yielded for one frame
Chunk(f) == <<"--frame\r\n", "Content-Type: image/jpeg\r\n\r\n", imencode(f), "\r\n">>

\* ---------------------------------------------------------------- history
NoLast == [handler |-> "none"]

NoStops == [n |-> 0, sid |-> "none", snap |-> <<>>]

\* what a stop_stream request of session s acts on, as a state function
Snapshot(s) == [flag |-> SessionGet(s, "streaming", "unset"),
                camera |-> camera, leaked |-> leaked]

\* The triples met, with those of the next state added; {} records nothing.
Record ==
    IF seen = {} THEN {}
    ELSE seen \cup {<<s, SessionGet(s, "streaming", FALSE)', CameraOpen'>> : s \in Sessions}

\* The history variables after a step of worker t serving view h for
\* session s: `alone` is lost by every other worker; `stops` counts the
\* stop_stream requests of one session that ran to their end one after the
\* other with nothing else stepping, and keeps the state the first one left.
History(t, h, s) ==
    /\ alone' = [u \in Threads |->
                    IF u # t \/ pc'[t] = "idle" THEN FALSE
                    ELSE IF pc[t] = "idle" THEN TRUE
                    ELSE alone[t]]
    /\ stops' =
         IF h # "stop_stream" THEN NoStops
         ELSE IF stops.n > 0 /\ stops.sid # s THEN NoStops
         ELSE IF pc'[t] # "idle" THEN stops
         ELSE IF pc[t] # "idle" /\ ~alone[t] THEN NoStops
         ELSE IF stops.n = 0
              THEN [n |-> 1, sid |-> s,
                    snap |-> [flag |-> IF "streaming" \in DOMAIN session'[s]
                                       THEN session'[s]["streaming"] ELSE "unset",
                              camera |-> camera', leaked |-> leaked']]
         ELSE [stops EXCEPT !.n = 2]
    /\ UNCHANGED workers
    /\ seen' = Record

\* ------------------------------------------------------------------- init
Init ==
    /\ camera = None
    /\ leaked = 0
    /\ session = [s \in Sessions |-> <<>>]
    /\ disk = <<>>
    /\ exited = FALSE
    /\ pc = [t \in Threads |-> "idle"]
    /\ handler = [t \in Threads |-> "none"]
    /\ sid = [t \in Threads |-> "none"]
    /\ frame = [t \in Threads |-> "none"]
    /\ chunks = [t \in Threads |-> <<>>]
    /\ last = NoLast
    /\ alone = [t \in Threads |-> FALSE]
    /\ stops = NoStops
    /\ workers = Threads
    /\ seen = {}

\* The same process served by a single worker (requests run one after the
\* other), with the history of the triples met switched on.
InitSeq ==
    /\ camera = None
    /\ leaked = 0
    /\ session = [s \in Sessions |-> <<>>]
    /\ disk = <<>>
    /\ exited = FALSE
    /\ pc = [t \in Threads |-> "idle"]
    /\ handler = [t \in Threads |-> "none"]
    /\ sid = [t \in Threads |-> "none"]
    /\ frame = [t \in Threads |-> "none"]
    /\ chunks = [t \in Threads |-> <<>>]
    /\ last = NoLast
    /\ alone = [t \in Threads |-> FALSE]
    /\ stops = NoStops
    /\ workers = {1}
    /\ seen = {<<s, FALSE, FALSE>> : s \in Sessions}

\* ------------------------------------------------------- control of a worker
\* Worker t goes on to `label` within the request it serves.
Goto(t, label) ==
    /\ pc' = [pc EXCEPT ![t] = label]
    /\ UNCHANGED <<handler, sid>>
    /\ last' = NoLast
    /\ History(t, handler[t], sid[t])

\* A request is taken by the first idle worker, while the process runs.
Accept(t) ==
    /\ t \in workers
    /\ ~exited
    /\ pc[t] = "idle"
    /\ \A u \in Threads : u < t => pc[u] # "idle"

\* urls.py dispatches a request of session s to view h on worker t, which
\* goes on to `label`.
Dispatch(t, h, s, label) ==
    /\ Accept(t)
    /\ pc' = [pc EXCEPT ![t] = label]
    /\ handler' = [handler EXCEPT ![t] = h]
    /\ sid' = [sid EXCEPT ![t] = s]
    /\ last' = NoLast
    /\ History(t, h, s)

\* The request view h serves for session s on worker t ends with response r,
\* after the chunks c were streamed; the worker is idle again.
Return(t, h, s, r, c) ==
    /\ pc' = [pc EXCEPT ![t] = "idle"]
    /\ handler' = [handler EXCEPT ![t] = "none"]
    /\ sid' = [sid EXCEPT ![t] = "none"]
    /\ frame' = [frame EXCEPT ![t] = "none"]
    /\ chunks' = [chunks EXCEPT ![t] = <<>>]
    /\ last' = [handler |-> h, sid |-> s, response |-> r, chunks |-> c,
                alone |-> (pc[t] = "idle" \/ alone[t])]
    /\ History(t, h, s)

\* the request worker t serves ends with response r
Respond(t, r) == Return(t, handler[t], sid[t], r, chunks[t])

\* init_camera returns to the view that called it: start_stream answers
\* (line 82), capture reads (line 70), video_feed starts streaming (line 61)
InitReturn(t) ==
    CASE handler[t] = "start_stream" -> Respond(t, Redirect)
      [] handler[t] = "capture" ->
            Goto(t, "capture_read") /\ UNCHANGED <<frame, chunks>>
      [] handler[t] = "video_feed" ->
            Goto(t, "gen_frames_check") /\ UNCHANGED <<frame, chunks>>

\* ------------------------------------------------------------ init_camera
\* line 16: if camera is None or not camera.isOpened()
init_camera_check(t) ==
    /\ pc[t] = "init_camera_check"
    /\ UNCHANGED shared
    /\ IF CameraOpen
       THEN InitReturn(t)
       ELSE Goto(t, "init_camera_open") /\ UNCHANGED <<frame, chunks>>

\* line 18: camera = cv2.VideoCapture(0); the device opens or it does not
init_camera_open(t) ==
    /\ pc[t] = "init_camera_open"
    /\ \E ok \in BOOLEAN : Rebind(IF ok THEN Opened ELSE Closed)
    /\ leaked' <= MaxLeaked
    /\ UNCHANGED <<session, disk, exited, frame, chunks>>
    /\ Goto(t, "init_camera_verify")

\* init_camera_verify without the raise of line 21
init_camera_verify_noraise(t) ==
    /\ pc[t] = "init_camera_verify"
    /\ UNCHANGED shared
    /\ IF camera = None
       THEN Respond(t, AttributeError)
       ELSE InitReturn(t)

\* lines 19-22: if not camera.isOpened(): raise RuntimeError
init_camera_verify(t) ==
    /\ pc[t] = "init_camera_verify"
    /\ UNCHANGED shared
    /\ IF camera = None
       THEN Respond(t, AttributeError)
       ELSE IF ~isOpened(camera)
       THEN Respond(t, RuntimeError)
       ELSE InitReturn(t)

\* --------------------------------------------------------- release_camera
\* release_camera_check with the condition of line 27 always false
release_camera_check_skip(t) ==
    /\ pc[t] = "release_camera_check"
    /\ UNCHANGED shared
    /\ Respond(t, Redirect)

\* release_camera_check with the condition of line 27 always true
release_camera_check_always(t) ==
    /\ pc[t] = "release_camera_check"
    /\ UNCHANGED shared
    /\ Goto(t, "release_camera_release") /\ UNCHANGED <<frame, chunks>>

\* line 27: if camera is not None and camera.isOpened()
release_camera_check(t) ==
    /\ pc[t] = "release_camera_check"
    /\ UNCHANGED shared
    /\ IF CameraOpen
       THEN Goto(t, "release_camera_release") /\ UNCHANGED <<frame, chunks>>
       ELSE Respond(t, Redirect)

\* line 29: camera.release()
release_camera_release(t) ==
    /\ pc[t] = "release_camera_release"
    /\ UNCHANGED <<leaked, session, disk, exited>>
    /\ IF camera = None
       THEN /\ UNCHANGED camera
            /\ Respond(t, AttributeError)
       ELSE /\ camera' = Closed
            /\ UNCHANGED <<frame, chunks>>
            /\ Goto(t, "release_camera_clear")

\* release_camera_clear that also resets the flag of every session
release_camera_clear_flags(t) ==
    /\ pc[t] = "release_camera_clear"
    /\ Rebind(None)
    /\ leaked' <= MaxLeaked
    /\ session' = [s \in Sessions |-> ("streaming" :> FALSE) @@ session[s]]
    /\ UNCHANGED <<disk, exited>>
    /\ Respond(t, Redirect)

\* lines 30-31: camera = None, and stop_stream's return at line 88
release_camera_clear(t) ==
    /\ pc[t] = "release_camera_clear"
    /\ Rebind(None)
    /\ leaked' <= MaxLeaked
    /\ UNCHANGED <<session, disk, exited>>
    /\ Respond(t, Redirect)

\* ------------------------------------------------------------- gen_frames
\* gen_frames_check without the break of line 38
gen_frames_check_noend(t) ==
    /\ pc[t] = "gen_frames_check"
    /\ UNCHANGED shared
    /\ Goto(t, "gen_frames_read") /\ UNCHANGED <<frame, chunks>>

\* gen_frames_check that also breaks when the session's flag is False
gen_frames_check_flag(t) ==
    /\ pc[t] = "gen_frames_check"
    /\ UNCHANGED shared
    /\ IF CameraOpen /\ SessionGet(sid[t], "streaming", FALSE)
       THEN Goto(t, "gen_frames_read") /\ UNCHANGED <<frame, chunks>>
       ELSE Respond(t, Stream)

\* lines 36-38: if camera is None or not camera.isOpened(): break
gen_frames_check(t) ==
    /\ pc[t] = "gen_frames_check"
    /\ UNCHANGED shared
    /\ IF CameraOpen
       THEN Goto(t, "gen_frames_read") /\ UNCHANGED <<frame, chunks>>
       ELSE Respond(t, Stream)

\* gen_frames_read that releases the device when it breaks out of the loop
gen_frames_read_release(t) ==
    /\ pc[t] = "gen_frames_read"
    /\ UNCHANGED <<leaked, session, disk, exited>>
    /\ IF camera = None
       THEN UNCHANGED camera /\ Respond(t, AttributeError)
       ELSE \/ /\ isOpened(camera)
               /\ Len(chunks[t]) < ChunkLimit
               /\ \E f \in Frames :
                    chunks' = [chunks EXCEPT ![t] = Append(@, Chunk(f))]
               /\ UNCHANGED <<frame, camera>>
               /\ Goto(t, "gen_frames_check")
            \/ /\ camera' = Closed
               /\ Respond(t, Stream)

\* lines 39-49: read one frame, encode it, yield the part; the read fails
\* on a closed device and may fail on an open one, and so may the encoding
gen_frames_read(t) ==
    /\ pc[t] = "gen_frames_read"
    /\ UNCHANGED shared
    /\ IF camera = None
       THEN Respond(t, AttributeError)
       ELSE \/ /\ isOpened(camera)
               /\ Len(chunks[t]) < ChunkLimit
               /\ \E f \in Frames :
                    chunks' = [chunks EXCEPT ![t] = Append(@, Chunk(f))]
               /\ UNCHANGED frame
               /\ Goto(t, "gen_frames_check")
            \/ Respond(t, Stream)

\* The client stops consuming the streaming response of lines 61-63.
Disconnect(t) ==
    /\ pc[t] \in {"gen_frames_check", "gen_frames_read"}
    /\ UNCHANGED shared
    /\ Respond(t, Stream)

\* ------------------------------------------------------------------ views
\* lines 52-54
index(t, s) ==
    /\ Accept(t)
    /\ UNCHANGED shared
    /\ Return(t, "index", s, Rendered, <<>>)

\* video_feed without the test of line 59
video_feed_always(t, s) ==
    /\ Accept(t)
    /\ UNCHANGED shared
    /\ Dispatch(t, "video_feed", s, "init_camera_check")
    /\ UNCHANGED <<frame, chunks>>

\* lines 57-65, up to the call of init_camera
video_feed(t, s) ==
    /\ Accept(t)
    /\ UNCHANGED shared
    /\ IF SessionGet(s, "streaming", FALSE)
       THEN Dispatch(t, "video_feed", s, "init_camera_check")
            /\ UNCHANGED <<frame, chunks>>
       ELSE Return(t, "video_feed", s, Stopped, <<>>)

\* lines 68-69: capture calls init_camera
capture(t, s) ==
    /\ UNCHANGED <<shared, frame, chunks>>
    /\ Dispatch(t, "capture", s, "init_camera_check")

\* capture_read that takes the branch of line 74 when the read failed
capture_read_redirect(t) ==
    /\ pc[t] = "capture_read"
    /\ UNCHANGED shared
    /\ IF camera = None
       THEN Respond(t, AttributeError)
       ELSE \/ /\ isOpened(camera)
               /\ \E f \in Frames : frame' = [frame EXCEPT ![t] = f]
               /\ UNCHANGED chunks
               /\ Goto(t, "capture_write")
            \/ Respond(t, Redirect)

\* lines 70-71, 75-76: success, frame = camera.read(); the read fails on a
\* closed device and may fail on an open one
capture_read(t) ==
    /\ pc[t] = "capture_read"
    /\ UNCHANGED shared
    /\ IF camera = None
       THEN Respond(t, AttributeError)
       ELSE \/ /\ isOpened(camera)
               /\ \E f \in Frames : frame' = [frame EXCEPT ![t] = f]
               /\ UNCHANGED chunks
               /\ Goto(t, "capture_write")
            \/ Respond(t, CaptureFail)

\* capture_write that does not overwrite a file that exists
capture_write_keep(t) ==
    /\ pc[t] = "capture_write"
    /\ disk' = disk @@ (Filename :> imencode(frame[t]))
    /\ UNCHANGED <<camera, leaked, session, exited>>
    /\ Respond(t, Redirect)

\* lines 72-74: cv2.imwrite(filename, frame); return redirect("index")
capture_write(t) ==
    /\ pc[t] = "capture_write"
    /\ disk' = (Filename :> imencode(frame[t])) @@ disk
    /\ UNCHANGED <<camera, leaked, session, exited>>
    /\ Respond(t, Redirect)

\* start_stream without the assignment of line 80
start_stream_noflag(t, s) ==
    /\ UNCHANGED <<shared, frame, chunks>>
    /\ Dispatch(t, "start_stream", s, "init_camera_check")

\* lines 79-81: request.session["streaming"] = True, then init_camera
start_stream(t, s) ==
    /\ session' = SessionSet(s, "streaming", TRUE)
    /\ UNCHANGED <<camera, leaked, disk, exited, frame, chunks>>
    /\ Dispatch(t, "start_stream", s, "init_camera_check")

\* stop_stream that clears the flag of every session
stop_stream_all(t, s) ==
    /\ session' = [x \in Sessions |-> ("streaming" :> FALSE) @@ session[x]]
    /\ UNCHANGED <<camera, leaked, disk, exited, frame, chunks>>
    /\ Dispatch(t, "stop_stream", s, "release_camera_check")

\* lines 85-87: request.session["streaming"] = False, then release_camera
stop_stream(t, s) ==
    /\ session' = SessionSet(s, "streaming", FALSE)
    /\ UNCHANGED <<camera, leaked, disk, exited, frame, chunks>>
    /\ Dispatch(t, "stop_stream", s, "release_camera_check")

\* lines 91-95: the atexit hook runs release_camera once no request is served
cleanup_camera ==
    /\ ~exited
    /\ \A t \in Threads : pc[t] = "idle"
    /\ exited' = TRUE
    /\ IF CameraOpen
       THEN /\ camera' = None
            /\ UNCHANGED leaked
       ELSE UNCHANGED <<camera, leaked>>
    /\ UNCHANGED <<session, disk, pc, handler, sid, frame, chunks, alone, workers>>
    /\ last' = NoLast
    /\ stops' = NoStops
    /\ seen' = Record

\* ------------------------------------------------------------------- spec
Next ==
    \/ \E t \in Threads, s \in Sessions : index(t, s)
    \/ \E t \in Threads, s \in Sessions : video_feed(t, s)
    \/ \E t \in Threads, s \in Sessions : capture(t, s)
    \/ \E t \in Threads, s \in Sessions : start_stream(t, s)
    \/ \E t \in Threads, s \in Sessions : stop_stream(t, s)
    \/ \E t \in Threads : init_camera_check(t)
    \/ \E t \in Threads : init_camera_open(t)
    \/ \E t \in Threads : init_camera_verify(t)
    \/ \E t \in Threads : release_camera_check(t)
    \/ \E t \in Threads : release_camera_release(t)
    \/ \E t \in Threads : release_camera_clear(t)
    \/ \E t \in Threads : gen_frames_check(t)
    \/ \E t \in Threads : gen_frames_read(t)
    \/ \E t \in Threads : Disconnect(t)
    \/ \E t \in Threads : capture_read(t)
    \/ \E t \in Threads : capture_write(t)
    \/ cleanup_camera

Spec == Init /\ [][Next]_vars

SpecSeq == InitSeq /\ [][Next]_vars

\* ================================================================= claims
\* the session's flag as the views read it
Streaming(s) == SessionGet(s, "streaming", FALSE)

\* the request that has just ended was served by view h and no other
\* worker stepped while it ran
EndedAlone(h) == last.handler = h /\ last.alone

\* a worker serving one of the views hs takes a step
Actor(hs) == \E t \in Threads : pc'[t] # pc[t] /\ handler[t] \in hs

\* C1: at every reachable state no device is open that the global handle
\* does not refer to, and at most one device is open.
AtMostOneOpenDevice == leaked = 0 /\ OpenDevices <= 1

\* C2: when a start_stream request has run to its redirect with no other
\* worker stepping, the session's flag is True and the handle is an open device.
StartStreamLeavesOpen ==
    (EndedAlone("start_stream") /\ last.response = Redirect)
        => (Streaming(last.sid) = TRUE /\ camera # None /\ isOpened(camera))

StartStreamEnded ==
    EndedAlone("start_stream") /\ last.response = Redirect /\ leaked = 1

\* C3: when a stop_stream request has run to its end with no other worker
\* stepping, the session's flag is set and False and the handle is None or
\* a closed device.
StopStreamLeavesClosed ==
    EndedAlone("stop_stream")
        => /\ "streaming" \in DOMAIN session[last.sid]
           /\ Streaming(last.sid) = FALSE
           /\ (camera = None \/ ~isOpened(camera))

StopStreamEndedAfterFailedOpen ==
    EndedAlone("stop_stream") /\ camera = Closed

\* C4: a video_feed request of a session whose flag is False or unset ends
\* at once with the static response and leaves the handle and the devices
\* as they were.
FeedStoppedWhenFlagFalse ==
    [][\A t \in Threads, s \in Sessions :
         (video_feed(t, s) /\ ~Streaming(s))
            => /\ pc'[t] = "idle"
               /\ last'.handler = "video_feed" /\ last'.response = Stopped
               /\ last'.chunks = <<>>
               /\ camera' = camera /\ leaked' = leaked]_vars

FeedStoppedWhileCameraOpen ==
    /\ last.handler = "video_feed" /\ last.response = Stopped
    /\ CameraOpen
    /\ \E s \in Sessions : s # last.sid /\ Streaming(s)

\* C5: stop_stream requests of a session that run one after the other never
\* raise, and the second and later ones leave the flag, the handle and the
\* devices as the first one left them.
StopStreamIdempotent ==
    /\ stops.n = 2 => Snapshot(stops.sid) = stops.snap
    /\ EndedAlone("stop_stream") => last.response = Redirect

StopStreamTwice ==
    stops.n = 2 /\ last.handler = "stop_stream"

\* C6: when capture reads from an open device and the read fails, the
\* request ends with the fixed 500 response and the file on disk is as it was.
CaptureReadFailure ==
    [][\A t \in Threads :
         (capture_read(t) /\ CameraOpen /\ pc'[t] # "capture_write")
            => /\ pc'[t] = "idle"
               /\ last'.response = CaptureFail
               /\ disk' = disk]_vars

CaptureFailedOnOpenDevice ==
    last.handler = "capture" /\ last.response = CaptureFail /\ CameraOpen

\* C7: the generator ends, yielding nothing more, when an iteration finds
\* the handle None or closed or when the read or the encoding fails; an
\* iteration that does not end it yields exactly one chunk; a sequence starts
\* empty with its video_feed request and, once ended, is never resumed.
GenFramesEnds ==
    [][\A t \in Threads :
         /\ (gen_frames_check(t) /\ ~CameraOpen)
               => (pc'[t] = "idle" /\ last'.chunks = chunks[t])
         /\ (gen_frames_check(t) /\ CameraOpen)
               => (pc'[t] = "gen_frames_read" /\ chunks'[t] = chunks[t])
         /\ gen_frames_read(t)
               => \/ /\ pc'[t] = "gen_frames_check"
                     /\ Len(chunks'[t]) = Len(chunks[t]) + 1
                     /\ SubSeq(chunks'[t], 1, Len(chunks[t])) = chunks[t]
                  \/ /\ pc'[t] = "idle"
                     /\ last'.chunks = chunks[t]
         /\ chunks'[t] # chunks[t]
               => (pc[t] = "gen_frames_read" \/ chunks'[t] = <<>>)
         /\ (pc'[t] \in {"gen_frames_check", "gen_frames_read"}
               /\ pc[t] \notin {"gen_frames_check", "gen_frames_read"})
               => (handler[t] = "video_feed" /\ chunks'[t] = <<>>)]_vars

GenFramesEndedOnClosedCamera ==
    /\ last.handler = "video_feed" /\ last.response = Stream
    /\ Len(last.chunks) >= 1
    /\ ~CameraOpen

\* C8, as stated: a device is opened only by a step of a start_stream or
\* capture request and closed only by a step of a stop_stream request or by
\* the exit hook.
DeviceLifecycleAsStated ==
    [][/\ OpenDevices' > OpenDevices => Actor({"start_stream", "capture"})
       /\ OpenDevices' < OpenDevices
             => (exited' # exited \/ Actor({"stop_stream"}))]_vars

\* C8, amended: a device is opened only by a step of a start_stream, capture
\* or video_feed request, closed only by a step of a stop_stream request or
\* by the exit hook; an index request, and a video_feed request of a session
\* whose flag is False or unset, end at once and change neither.
DeviceLifecycle ==
    [][/\ OpenDevices' > OpenDevices
             => Actor({"start_stream", "capture", "video_feed"})
       /\ OpenDevices' < OpenDevices
             => (exited' # exited \/ Actor({"stop_stream"}))
       /\ \A t \in Threads, s \in Sessions :
            (index(t, s) \/ (video_feed(t, s) /\ ~Streaming(s)))
               => /\ pc'[t] = "idle"
                  /\ camera' = camera /\ leaked' = leaked]_vars

FeedOpenedDevice ==
    \E t \in Threads :
       /\ handler[t] = "video_feed" /\ pc[t] = "init_camera_verify"
       /\ alone[t]
       /\ CameraOpen

\* C9: whenever no request is being served the handle is None or an open
\* device, and after a stop_stream request that ran alone it is None.
HandleAbsentOrOpen ==
    /\ (\A t \in Threads : pc[t] = "idle") => (camera = None \/ isOpened(camera))
    /\ EndedAlone("stop_stream") => camera = None

\* C10: init_camera leaves an open handle as it is and does not open again;
\* a request that runs alone opens the device only when the handle is None
\* or closed; when line 19 finds the device not open the request ends with
\* the RuntimeError and the disk as it was, and a request that called
\* init_camera alone and left no open device ended with that error.
InitCameraContract ==
    /\ [][\A t \in Threads :
            /\ (init_camera_check(t) /\ CameraOpen)
                  => /\ camera' = camera /\ leaked' = leaked
                     /\ pc'[t] # "init_camera_open"
            /\ (init_camera_open(t) /\ alone[t]) => ~CameraOpen
            /\ (init_camera_verify(t) /\ camera # None /\ ~isOpened(camera))
                  => /\ pc'[t] = "idle"
                     /\ last'.response = RuntimeError
                     /\ disk' = disk]_vars
    /\ []((/\ last.handler \in {"start_stream", "capture", "video_feed"}
           /\ last.alone
           /\ last.response # Stopped
           /\ ~CameraOpen)
              => last.response = RuntimeError)

CaptureEndedOnFailedOpen ==
    EndedAlone("capture") /\ last.response = RuntimeError /\ disk # <<>>

\* a worker is running the generator
Producing(t) == pc[t] \in {"gen_frames_check", "gen_frames_read"}

\* C11: a producer never consults the session's flag: the stop_stream step
\* that sets the flag False leaves every producer where it is, and a producer
\* whose check finds the device open goes on to read although the flag of
\* its session is False.
ProducerIgnoresFlag ==
    [][/\ \A t \in Threads :
            (gen_frames_check(t) /\ CameraOpen /\ ~Streaming(sid[t]))
               => (pc'[t] = "gen_frames_read" /\ chunks'[t] = chunks[t])
       /\ \A u \in Threads, s \in Sessions :
            stop_stream(u, s)
               => \A t \in Threads :
                     Producing(t) => (pc'[t] = pc[t] /\ chunks'[t] = chunks[t])]_vars

\* a producer has yielded a chunk after the stop_stream request of its own
\* session set the flag False
ProducerYieldedAfterStop ==
    \E t \in Threads, u \in Threads :
       /\ t # u
       /\ pc[t] = "gen_frames_check" /\ Len(chunks[t]) >= 1
       /\ handler[u] = "stop_stream" /\ sid[u] = sid[t]
       /\ pc[u] = "release_camera_check" /\ ~alone[u]
       /\ ~Streaming(sid[t])

CapturedFile ==
    /\ [](DOMAIN disk \subseteq {Filename})
    /\ [][/\ \A t \in Threads :
               /\ capture_write(t)
                     => /\ frame[t] \in Frames
                        /\ disk' = (Filename :> imencode(frame[t]))
                        /\ pc'[t] = "idle"
                        /\ last'.handler = "capture" /\ last'.response = Redirect
               /\ (capture_read(t) /\ pc'[t] = "capture_write")
                     => frame'[t] \in Frames
          /\ disk' # disk => \E t \in Threads : capture_write(t)]_vars

CaptureWroteFile ==
    /\ EndedAlone("capture") /\ last.response = Redirect
    /\ disk = (Filename :> <<"jpeg", "f2">>)

\* the part the claim describes for the frame f
Part(f) == <<"--frame\r\n", "Content-Type: image/jpeg\r\n\r\n", imencode(f), "\r\n">>

\* C14: every chunk yielded is the boundary line, the Content-Type line, a
\* blank line, the JPEG bytes of one frame and a line break; an iteration
\* either appends exactly one such chunk after those yielded before, or ends
\* the sequence and yields nothing.
ChunkFormat ==
    /\ [](\A t \in Threads : \A i \in 1..Len(chunks[t]) :
             \E f \in Frames : chunks[t][i] = Part(f))
    /\ [][\A t \in Threads :
            gen_frames_read(t)
               => \/ /\ pc'[t] = "gen_frames_check"
                     /\ \E f \in Frames : chunks'[t] = Append(chunks[t], Part(f))
                  \/ /\ pc'[t] = "idle"
                     /\ last'.chunks = chunks[t]]_vars

TwoChunksInOrder ==
    /\ last.handler = "video_feed"
    /\ last.chunks = <<Part("f1"), Part("f2")>>

\* C15: read is never called on a handle that is None, in the generator or
\* in capture.
ReadNeverOnNone ==
    [][\A t \in Threads :
         (gen_frames_read(t) \/ capture_read(t)) => camera # None]_vars

\* C16: a session's dictionary changes only in a start_stream request of
\* that session, which sets the flag True, or in a stop_stream request of
\* that session, which sets it False.
FlagChangesOnlyByOwnSession ==
    [][\A s \in Sessions :
         session'[s] # session[s]
            => \E t \in Threads :
                  \/ start_stream(t, s) /\ Streaming(s)' = TRUE
                  \/ stop_stream(t, s) /\ Streaming(s)' = FALSE]_vars

OtherSessionStoppedFlagKept ==
    /\ last.handler = "stop_stream"
    /\ \E s \in Sessions : s # last.sid /\ Streaming(s)

\* C17, as far as views.py decides it: when a start_stream request that ran
\* alone ends with the RuntimeError, line 80 has set the flag of its session
\* and no device is open under the handle; a video_feed request of a session
\* whose flag is True calls init_camera, which goes on to open the device when
\* it is not open.  Whether a session written by a request that ends with an
\* exception is saved at all is decided by the session middleware, which
\* views.py does not contain: here the write of line 80 is the store's.
FailedStartKeepsFlag ==
    /\ []((EndedAlone("start_stream") /\ last.response = RuntimeError)
             => (Streaming(last.sid) = TRUE /\ ~CameraOpen))
    /\ [][\A t \in Threads :
            /\ \A s \in Sessions :
                 (video_feed(t, s) /\ Streaming(s)) => pc'[t] = "init_camera_check"
            /\ (init_camera_check(t) /\ ~CameraOpen)
                  => pc'[t] = "init_camera_open"]_vars

StartStreamFailed ==
    EndedAlone("start_stream") /\ last.response = RuntimeError

\* C18: release_camera acts on the global handle whatever the session: after
\* a stop_stream request that ran alone the handle is not open; a stop_stream
\* request changes no flag but its own session's; a producer whose check
\* finds the handle not open ends, and no flag changes with it.
StopEndsOtherProducers ==
    /\ [](EndedAlone("stop_stream") => ~CameraOpen)
    /\ [][/\ \A t \in Threads :
               (gen_frames_check(t) /\ ~CameraOpen)
                  => /\ pc'[t] = "idle"
                     /\ last'.response = Stream
                     /\ session' = session
          /\ \A u \in Threads :
               /\ (release_camera_check(u) /\ CameraOpen)
                     => pc'[u] = "release_camera_release"
               /\ (release_camera_release(u) /\ camera # None)
                     => camera' = Closed
               /\ (handler[u] = "stop_stream" /\ pc'[u] # pc[u])
                     => session' = session
          /\ \A u \in Threads, s \in Sessions :
               stop_stream(u, s)
                  => \A x \in Sessions \ {s} : session'[x] = session[x]]_vars

ProducerOfOtherSessionLostCamera ==
    \E t \in Threads :
       /\ Producing(t)
       /\ last.handler = "stop_stream" /\ last.sid # sid[t]
       /\ Streaming(sid[t])
       /\ ~CameraOpen

====
